---- MODULE Spec2Model ----
(***************************************************************************)
(* Model of agora_analytica/analytics/text.py: the VoikkoTokenizer         *)
(* (stemming with a stem cache, spelling-suggestion fallback and the       *)
(* paragraph noise rule, pickling hooks) and the TextTopics comparator     *)
(* (find_topic_word, compare_series) with their cachetools caches.         *)
(***************************************************************************)
EXTENDS Integers, Sequences, FiniteSets, TLC

VARIABLES stem_map, voikko, self, acache, pickled, origin, last,
          lda, shared, cache, compared

tokvars == <<stem_map, voikko, self, acache, pickled, origin, last>>
topvars == <<lda, shared, cache, compared>>
vars == <<tokvars, topvars>>

\* ------------------------------------------------------------------ bounds
MaxLen == 2        \* longest paragraph handed to tokenize_paragraph, in tokens
MaxParas == 2      \* most paragraphs (lines) of a text handed to tokenize
MaxRestores == 1   \* how many times the tokenizer is unpickled
DepthCap == 3      \* evaluation cut-off for nested tokenize_paragraph calls
MixtureLevels == 2 \* a topic's weight in a mean mixture is one of 0..MixtureLevels-1

\* ------------------------------------------------- the morphological oracle
Langs == {"fi", "sv"}

\* str.lower() on the strings of the model.
LowerTable ==
    [s \in {"Helsingin", "Helsinki", "Xyz"} |->
        CASE s = "Helsingin" -> "helsingin"
          [] s = "Helsinki"  -> "helsinki"
          [] s = "Xyz"       -> "xyz"]

Lower(s) == IF s \in DOMAIN LowerTable THEN LowerTable[s] ELSE s

Morph(b, c) == [BASEFORM |-> b, CLASS |-> c]

Voikko(lang) == [lang |-> lang]

\* Voikko(lang).analyze(word): the analyses of a word, in oracle order; the
\* empty list for a word the dictionary does not know.
voikko_analyze(v, word) ==
    IF v.lang # "fi" THEN <<>>
    ELSE CASE word = "helsingin" -> <<Morph("Helsinki", "nimi")>>
           [] word = "voin"      -> <<Morph("voi", "huudahdussana"),
                                      Morph("voida", "teonsana"),
                                      Morph("voi", "nimisana")>>
           [] word = "nopeasti"  -> <<Morph("nopea", "seikkasana")>>
           [] word = "helsinki"  -> <<Morph("Helsinki", "nimi")>>
           [] word = "voida"     -> <<Morph("voida", "teonsana")>>
           [] word = "kissa"     -> <<Morph("kissa", "nimisana")>>
           [] OTHER              -> <<>>

\* Voikko(lang).suggest(word): ranked spelling suggestions; a suggestion is a
\* string, modelled as the sequence of its tokens.
voikko_suggest(v, word) ==
    IF v.lang # "fi" THEN <<>>
    ELSE CASE word = "helsingn" -> << <<"Helsingin", "voin">>, <<"xyz">> >>
           [] word = "qwe"      -> << <<"Xyz">> >>
           [] word = "abc"      -> << <<"abc">> >>
           [] OTHER             -> <<>>

\* ---------------------------------------------------------------- inputs
ColonFragments == {":n"}
RawTokens == {"Helsingin", "voin", "nopeasti", "xyz", "helsingn", "qwe", "abc", ":n"}

SeqsUpTo(S, n) == UNION {[1..k -> S] : k \in 0..n}
\* Every one-token paragraph, and the longer ones over the core tokens.
CoreTokens == {"voin", "xyz", "qwe"}
Paragraphs == SeqsUpTo(RawTokens, 1) \cup SeqsUpTo(CoreTokens, MaxLen)
\* A text is the sequence of its lines (str.splitlines).
TextTokens == {"xyz", "qwe"}
Texts == SeqsUpTo(SeqsUpTo(TextTokens, 1), MaxParas)
\* The tokens and words of the pickling runs.
PickleTokens == {"nopeasti", "qwe"}
PickleWords == {"nopeasti", "qwe", "xyz"}

\* ------------------------------------------------------- VoikkoTokenizer
FINNISH_STOPWORD_CLASSES ==
    {"huudahdussana", "seikkasana", "lukusana", "asemosana", "sidesana",
     "suhdesana", "kieltosana"}

\* self.err_treshold = 0.5, as a fraction
err_treshold == [num |-> 1, den |-> 2]

\* re.findall(self.regex_words, sentence.lower()) without the empty matches:
\* a word token yields itself, a colon fragment yields the empty group.
regex_words(token) == IF token \in ColonFragments THEN "" ELSE token

RECURSIVE FilterNonEmpty(_)
FilterNonEmpty(s) ==
    IF s = <<>> THEN <<>>
    ELSE (IF Head(s) # "" THEN <<Head(s)>> ELSE <<>>) \o FilterNonEmpty(Tail(s))

FindAll(sentence) ==
    FilterNonEmpty([i \in 1..Len(sentence) |-> regex_words(Lower(sentence[i]))])

\* The heap a call works on, with the log of the oracle calls it makes.
Heap(sm, v, id, ac) ==
    [stem_map |-> sm, voikko |-> v, self |-> id, acache |-> ac,
     an_calls |-> <<>>, sg_calls |-> <<>>, maxdepth |-> 0, overflow |-> FALSE]

\* @cached({}) analyze: the cache is keyed by (self, word).
analyze(h, word) ==
    LET key == <<h.self, word>> IN
    IF key \in DOMAIN h.acache
    THEN [h |-> h, analysis |-> h.acache[key]]
    ELSE LET a == voikko_analyze(h.voikko, word) IN
         [h |-> [h EXCEPT !.acache = (key :> a) @@ h.acache,
                          !.an_calls = Append(h.an_calls, word)],
          analysis |-> a]

\* mutant: the first analysis, whatever its class
FirstAnalysis(analysis) == IF analysis = <<>> THEN 0 ELSE 1

\* for _word in analysis: the first analysis whose class is no stopword class
\* (0 when there is none)
FirstSuitable(analysis) ==
    IF \A i \in DOMAIN analysis : analysis[i].CLASS \in FINNISH_STOPWORD_CLASSES
    THEN 0
    ELSE CHOOSE i \in DOMAIN analysis :
            /\ analysis[i].CLASS \notin FINNISH_STOPWORD_CLASSES
            /\ \A j \in 1..(i - 1) : analysis[j].CLASS \in FINNISH_STOPWORD_CLASSES

\* The fall-back of _stem on the given word (lines 94-96).
Fallback(word) == Lower(word)

\* Lines 86-96: the lowercase base form of the first suitable analysis, or
\* the fall-back.
StemOf(analysis, word) ==
    IF FirstSuitable(analysis) # 0
    THEN Lower(analysis[FirstSuitable(analysis)].BASEFORM)
    ELSE Fallback(word)

\* self.stem_map[word] = s; return [s]
Store(h, word, s, err_count) ==
    [h |-> [h EXCEPT !.stem_map = (word :> s) @@ h.stem_map],
     out |-> <<s>>, err_count |-> err_count]

\* self.voikko.suggest(word), logged
Asked(h, word, depth) ==
    [h EXCEPT !.sg_calls = Append(h.sg_calls, [word |-> word, depth |-> depth])]

\* mutant: the nested call keeps asking for suggestions
NestedKeepsSuggesting == TRUE

\* use_suggestions of the nested call of line 84.
NestedUseSuggestions == FALSE

RECURSIVE tokenize_paragraph(_, _, _, _)
RECURSIVE stem_all(_, _, _, _, _, _, _)

\* return self.tokenize_paragraph(suggested, use_suggestions=False)
Nested(n, err_count) == [h |-> n.h, out |-> n.r, err_count |-> err_count]

\* Lines 79-84, with sg the answer of voikko.suggest (suggested is its first
\* entry, None when it is empty), then the fall-through to lines 86-96.
stem_suggested(h, sg, word, depth, err_count) ==
    IF sg # <<>>
    THEN Nested(tokenize_paragraph(h, sg[1], NestedUseSuggestions, depth + 1), err_count)
    ELSE Store(h, word, Fallback(word), err_count)

\* Lines 72-96, with an the answer of self.analyze(word).
stem_analyzed(an, word, use_suggestions, depth, err_count) ==
    IF an.analysis = <<>>
    THEN IF use_suggestions
         THEN stem_suggested(Asked(an.h, word, depth), voikko_suggest(an.h.voikko, word),
                             word, depth, err_count + 1)
         ELSE Store(an.h, word, Fallback(word), err_count + 1)
    ELSE Store(an.h, word, StemOf(an.analysis, word), err_count)

\* _stem(word): [h, out, err_count]
stem(h, word, use_suggestions, depth, err_count) ==
    IF word \in DOMAIN h.stem_map
    THEN [h |-> h, out |-> <<h.stem_map[word]>>, err_count |-> err_count]
    ELSE stem_analyzed(analyze(h, word), word, use_suggestions, depth, err_count)

\* What one _stem call did: its word, stems, error count and oracle calls.
TraceEntry(h, s, word, err_count) ==
    [word |-> word,
     cached |-> word \in DOMAIN h.stem_map,
     out |-> s.out,
     err |-> s.err_count - err_count,
     an_calls |-> SubSeq(s.h.an_calls, Len(h.an_calls) + 1, Len(s.h.an_calls)),
     sg_calls |-> SubSeq(s.h.sg_calls, Len(h.sg_calls) + 1, Len(s.h.sg_calls))]

\* The rest of chain(*map(_stem, r)) after the first word's _stem returned s.
stem_rest(h, s, words, use_suggestions, depth, err_count, out, trace) ==
    stem_all(s.h, Tail(words), use_suggestions, depth, s.err_count,
             out \o FilterNonEmpty(s.out),
             Append(trace, TraceEntry(h, s, Head(words), err_count)))

\* chain(*map(_stem, r)): the words in order, each on the heap the previous left
stem_all(h, words, use_suggestions, depth, err_count, out, trace) ==
    IF words = <<>>
    THEN [h |-> h, out |-> out, err_count |-> err_count, trace |-> trace]
    ELSE stem_rest(h, stem(h, Head(words), use_suggestions, depth, err_count),
                   words, use_suggestions, depth, err_count, out, trace)

\* The noise rule of line 102.
TooManyErrors(n, err_count) == n * err_treshold.num < err_count * err_treshold.den

\* Lines 102-107 on the stems f of the paragraph.
Filtered(f) ==
    [h |-> f.h,
     r |-> IF TooManyErrors(Len(f.out), f.err_count) THEN <<>> ELSE f.out,
     err_count |-> f.err_count,
     trace |-> f.trace]

\* A call at nesting depth `depth` begins.
Enter(h, depth) == [h EXCEPT !.maxdepth = IF depth > @ THEN depth ELSE @]

tokenize_paragraph(h, sentence, use_suggestions, depth) ==
    IF depth > DepthCap
    THEN [h |-> [h EXCEPT !.overflow = TRUE], r |-> <<>>, err_count |-> 0, trace |-> <<>>]
    ELSE Filtered(stem_all(Enter(h, depth), FindAll(sentence), use_suggestions, depth,
                           0, <<>>, <<>>))

\* tokenize(text): chain(*map(self.tokenize_paragraph, text.splitlines()))
RECURSIVE tokenize_from(_, _, _)
tokenize_rest(c, paragraphs, out) == tokenize_from(c.h, Tail(paragraphs), out \o c.r)

tokenize_from(h, paragraphs, out) ==
    IF paragraphs = <<>>
    THEN [h |-> h, r |-> out]
    ELSE tokenize_rest(tokenize_paragraph(h, Head(paragraphs), TRUE, 0), paragraphs, out)

tokenize(h, text) == tokenize_from(h, text, <<>>)

\* ------------------------------------------------------------ TextTopics
Range(s) == {s[i] : i \in DOMAIN s}

\* An entry of a pandas Series of texts: missing, or a text given by its lines.
NaN == [nan |-> TRUE]
Text(lines) == [nan |-> FALSE, lines |-> lines]

\* tuple(series.dropna())
RECURSIVE dropna(_)
dropna(series) ==
    IF series = <<>> THEN <<>>
    ELSE (IF Head(series).nan THEN <<>> ELSE <<Head(series).lines>>) \o dropna(Tail(series))

\* "\n\n".join(text), as the lines str.splitlines gives for it: the texts'
\* lines with one empty line between two texts.
RECURSIVE JoinLines(_)
JoinLines(text) ==
    IF text = <<>> THEN <<>>
    ELSE IF Len(text) = 1 THEN text[1]
    ELSE text[1] \o << <<>> >> \o JoinLines(Tail(text))

TextK == << <<"kissa", "voin", "voin">> >>
TextV == << <<"voin", "nopeasti">>, <<"nopeasti">> >>
TextH == << <<"Helsingin", "Helsingin", "kissa">> >>

\* The series handed to compare_series, and the collections handed to
\* find_topic_word.
SeriesSet == { <<Text(TextK)>>, <<Text(TextV), NaN>> }
Collections == {dropna(x) : x \in SeriesSet} \cup { <<TextH, TextK>> }

\* A fitted CountVectorizer and LDA: the feature names, the components_ matrix
\* (one row per topic) and the texts they were fitted on.
ModelA == [words |-> <<"helsinki", "kissa", "nopeasti", "voida">>,
           components |-> << <<1, 2, 3, 1>>, <<3, 1, 1, 2>> >>,
           corpus |-> <<TextK, TextV, TextH>>]
ModelB == [words |-> <<"helsinki", "nopeasti", "voida">>,
           components |-> << <<2, 1, 3>>, <<1, 1, 1>>, <<1, 3, 2>> >>,
           corpus |-> <<TextV, << <<"Helsingin">> >> >>]
Models == {ModelA, ModelB}

number_topics == Len(lda.components)
TopicIds == 0..(number_topics - 1)

\* The mean topic mixtures LDA.transform may give, on an integer scale.
Mixtures == [1..number_topics -> 0..(MixtureLevels - 1)]

\* np.log on the counts of the model, in thousandths.
LogMilli == <<0, 693, 1099, 1386, 1609, 1792, 1946, 2079>>

EmptyCache == [topics |-> <<>>, find_topic_word |-> <<>>, topic_words |-> <<>>,
               suitable |-> <<>>, vector_words |-> FALSE]

\* The state a TextTopics call works on: its tokenizer's and its caches.
Mem(sm, ac, c) == [stem_map |-> sm, acache |-> ac, cache |-> c]
TokHeap(m) == Heap(m.stem_map, voikko, self, m.acache)

\* @cached vector_words
vector_words(m) ==
    [m |-> [m EXCEPT !.cache.vector_words = TRUE], r |-> lda.words]

RECURSIVE SumColumn(_, _, _)
SumColumn(components, wid, t) ==
    IF t = 0 THEN 0 ELSE components[t][wid] + SumColumn(components, wid, t - 1)

\* components_[id][wid] / sum([x[wid] for x in components_]), as a fraction
Relevance(id, wid) ==
    [num |-> lda.components[id + 1][wid],
     den |-> SumColumn(lda.components, wid, Len(lda.components))]

IndexOfWord(words, w) == CHOOSE i \in DOMAIN words : words[i] = w

\* Lines 244-252 with the feature names at hand.
topic_words_of(vw, id) ==
    [m |-> [vw.m EXCEPT !.cache.topic_words =
               (id :> [w \in Range(vw.r) |-> Relevance(id, IndexOfWord(vw.r, w))]) @@ @],
     r |-> [w \in Range(vw.r) |-> Relevance(id, IndexOfWord(vw.r, w))]]

\* @cached topic_words(id): word -> relevance
topic_words(m, id) ==
    IF id \in DOMAIN m.cache.topic_words
    THEN [m |-> m, r |-> m.cache.topic_words[id]]
    ELSE topic_words_of(vector_words(m), id)

NounClasses == {"nimi", "nimisana"}

HasNounClass(analysis) == \E i \in DOMAIN analysis : analysis[i].CLASS \in NounClasses

\* Lines 258-262 with the analysis at hand.
suitable_of(m, an, word) ==
    [m |-> [m EXCEPT !.acache = an.h.acache,
                     !.cache.suitable = (word :> HasNounClass(an.analysis)) @@ @],
     r |-> HasNounClass(an.analysis)]

\* @cached _suitable_topic_word(word)
suitable_topic_word(m, word) ==
    IF word \in DOMAIN m.cache.suitable
    THEN [m |-> m, r |-> m.cache.suitable[word]]
    ELSE suitable_of(m, analyze(TokHeap(m), word), word)

\* pd.Series(tokens).value_counts()
value_counts(tokens) ==
    [w \in Range(tokens) |-> Cardinality({i \in DOMAIN tokens : tokens[i] = w})]

\* source.map(np.log) * words: aligned on the union of the two indexes, with
\* no value (NaN) for a word that one of them lacks.
Counts(source, words) ==
    [w \in DOMAIN source \cup DOMAIN words |->
        IF w \in DOMAIN source /\ w \in DOMAIN words
        THEN [nan |-> FALSE, num |-> LogMilli[source[w]] * words[w].num, den |-> words[w].den]
        ELSE [nan |-> TRUE]]

\* a sorts no later than b under sort_values(ascending=False): NaN last
SortsBefore(a, b) ==
    IF b.nan THEN TRUE
    ELSE IF a.nan THEN FALSE
    ELSE a.num * b.den >= b.num * a.den

\* The orders sort_values(ascending=False) may give: the order of equal values
\* and of the words without a value is the sort's own.
RECURSIVE Orders(_, _)
Orders(counts, W) ==
    IF W = {} THEN {<<>>}
    ELSE UNION {{<<w>> \o o : o \in Orders(counts, W \ {w})} :
                w \in {x \in W : \A y \in W : SortsBefore(counts[x], counts[y])}}

\* for word, c in counts.sort_values(...).iteritems(): the first suitable word
RECURSIVE Walk(_, _, _)
WalkOn(sw, order, i) ==
    IF sw.r THEN [m |-> sw.m, raised |-> FALSE, word |-> order[i]]
    ELSE Walk(sw.m, order, i + 1)

Walk(m, order, i) ==
    IF i > Len(order) THEN [m |-> m, raised |-> TRUE]
    ELSE WalkOn(suitable_topic_word(m, order[i]), order, i)

\* The outcome of find_topic_word after the loop ended with f: the word is
\* cached, the RuntimeError is not.
Found(f, key, source, counts) ==
    IF f.raised
    THEN [m |-> f.m, raised |-> TRUE, hit |-> FALSE, source |-> source, counts |-> counts]
    ELSE [m |-> [f.m EXCEPT !.cache.find_topic_word = (key :> f.word) @@ @],
          raised |-> FALSE, word |-> f.word, hit |-> FALSE,
          source |-> source, counts |-> counts]

\* Lines 228-238 with the value counts and the topic's words at hand.
find_in(tw, key, source, counts) ==
    {Found(Walk(tw.m, o, 1), key, source, counts) : o \in Orders(counts, DOMAIN counts)}

\* Lines 224-238 with the tokens of the collection at hand.
find_topic_word_of(m, tk, key) ==
    {x \in UNION {find_in(tw, key, value_counts(tk.r), Counts(value_counts(tk.r), tw.r)) :
                    tw \in {topic_words([m EXCEPT !.stem_map = tk.h.stem_map,
                                                  !.acache = tk.h.acache], key[2])}} : TRUE}

\* @cached find_topic_word(text, topic_id): the outcomes it may have
find_topic_word(m, text, topic_id) ==
    IF <<text, topic_id>> \in DOMAIN m.cache.find_topic_word
    THEN {[m |-> m, raised |-> FALSE, word |-> m.cache.find_topic_word[<<text, topic_id>>],
           hit |-> TRUE]}
    ELSE find_topic_word_of(m, tokenize(TokHeap(m), JoinLines(text)), <<text, topic_id>>)

\* self._count_vector.transform(source): every text goes through the
\* vectorizer's tokenizer, which is self._tokenizer when the vectorizer was
\* fitted by this object (line 171) and another object when it was loaded.
RECURSIVE transform(_, _)
transform_rest(m, tk, source) ==
    transform([m EXCEPT !.stem_map = tk.h.stem_map, !.acache = tk.h.acache], Tail(source))

transform(m, source) ==
    IF source = <<>> \/ ~shared THEN m
    ELSE transform_rest(m, tokenize(TokHeap(m), Head(source)), source)

\* @cached _get_topics(source): the outcomes it may have
get_topics(m, source) ==
    IF source \in DOMAIN m.cache.topics
    THEN {[m |-> m, r |-> m.cache.topics[source]]}
    ELSE {[m |-> [m1 EXCEPT !.cache.topics = (source :> mix) @@ @], r |-> mix] :
             m1 \in {transform(m, source)}, mix \in Mixtures}

Maximum(d) == CHOOSE x \in Range(d) : \A y \in Range(d) : x >= y
Minimum(d) == CHOOSE x \in Range(d) : \A y \in Range(d) : x <= y
FirstIndexOf(d, x) == CHOOSE i \in DOMAIN d : d[i] = x /\ \A j \in DOMAIN d : d[j] = x => i <= j
LastIndexOf(d, x) == CHOOSE i \in DOMAIN d : d[i] = x /\ \A j \in DOMAIN d : d[j] = x => i >= j

\* mutant: the last topic of the smallest difference
argmin_last(d) == LastIndexOf(d, Minimum(d)) - 1

\* np.argmax, np.argmin: the first topic id of the extreme value
argmax(d) == FirstIndexOf(d, Maximum(d)) - 1
argmin(d) == FirstIndexOf(d, Minimum(d)) - 1

\* diffs = source_topics - target_topics
Diffs(source_topics, target_topics) ==
    [i \in DOMAIN source_topics |-> source_topics[i] - target_topics[i]]

\* Lines 212-215 on the collections s and t and their differences.
compare_words(m, s, t, diffs) ==
    UNION { IF fs.raised
            THEN {[m |-> fs.m, raised |-> TRUE, diffs |-> diffs]}
            ELSE {[m |-> ft.m, raised |-> ft.raised, diffs |-> diffs,
                   max |-> <<argmax(diffs), fs.word>>,
                   min |-> <<argmin(diffs), IF ft.raised THEN "" ELSE ft.word>>]
                  : ft \in find_topic_word(fs.m, t, argmin(diffs))}
            : fs \in find_topic_word(m, s, argmax(diffs)) }

\* Lines 203-215 on the collections s and t.
compare_collections(m, s, t) ==
    UNION { UNION { compare_words(tt.m, s, t, Diffs(st.r, tt.r))
                    : tt \in get_topics(st.m, t) }
            : st \in get_topics(m, s) }

\* compare_series(source, target): the outcomes it may have
compare_series(m, source, target) ==
    compare_collections(m, dropna(source), dropna(target))

\* ------------------------------------------------------------- actions
NoCall == [op |-> "none"]
\* nothing pickled yet
NoState == <<>>
NoOrigin == [restored |-> FALSE, stem_map |-> <<>>, analyzed |-> {}]
NotCompared == [c \in Collections \X Collections |-> [called |-> FALSE, raised |-> FALSE]]

\* VoikkoTokenizer.__init__ for a language
InitTokenizer(lang) ==
    /\ stem_map = <<>>
    /\ voikko = Voikko(lang)
    /\ self = 0
    /\ acache = <<>>
    /\ pickled = NoState
    /\ origin = NoOrigin
    /\ last = NoCall

\* No TextTopics object in the tokenizer runs.
NoTopics ==
    /\ lda = ModelA
    /\ shared = FALSE
    /\ cache = EmptyCache
    /\ compared = NotCompared

Init == InitTokenizer("fi") /\ NoTopics

TokenizeParagraph(sentence, use_suggestions) ==
    \E c \in {tokenize_paragraph(Heap(stem_map, voikko, self, acache), sentence, use_suggestions, 0)} :
    /\ stem_map' = c.h.stem_map
    /\ acache' = c.h.acache
    /\ last' = [op |-> "tokenize_paragraph", sentence |-> sentence,
                use_suggestions |-> use_suggestions, r |-> c.r,
                err_count |-> c.err_count, trace |-> c.trace,
                an_calls |-> c.h.an_calls, sg_calls |-> c.h.sg_calls,
                maxdepth |-> c.h.maxdepth, overflow |-> c.h.overflow]
    /\ UNCHANGED <<voikko, self, pickled, origin, topvars>>

Tokenize(text) ==
    \E c \in {tokenize(Heap(stem_map, voikko, self, acache), text)} :
    /\ stem_map' = c.h.stem_map
    /\ acache' = c.h.acache
    /\ last' = [op |-> "tokenize", text |-> text, r |-> c.r,
                an_calls |-> c.h.an_calls, sg_calls |-> c.h.sg_calls,
                maxdepth |-> c.h.maxdepth, overflow |-> c.h.overflow]
    /\ UNCHANGED <<voikko, self, pickled, origin, topvars>>

\* A direct call of the cached analyze (TextTopics._suitable_topic_word makes it).
Analyze(word) ==
    \E c \in {analyze(Heap(stem_map, voikko, self, acache), word)} :
    /\ acache' = c.h.acache
    /\ last' = [op |-> "analyze", word |-> word, analysis |-> c.analysis,
                an_calls |-> c.h.an_calls]
    /\ UNCHANGED <<stem_map, voikko, self, pickled, origin, topvars>>

\* self.__dict__ of the tokenizer (the compiled regex is a constant of the class).
Dict == [stem_map |-> stem_map, voikko |-> voikko,
         regex_words |-> "regex_words", err_treshold |-> err_treshold]

Without(f, k) == [x \in DOMAIN f \ {k} |-> f[x]]

\* __getstate__: the copy of __dict__ with the language tag and without the handle
getstate(d) == Without(("voikko_lang" :> d.voikko.lang) @@ d, "voikko")

\* mutant: the handle rebuilt for the default language, not from the tag
setstate_default_lang(state) == Without(("voikko" :> Voikko("fi")) @@ state, "voikko_lang")

\* __setstate__: the handle rebuilt from the tag, the tag removed
setstate(state) == Without(("voikko" :> Voikko(state.voikko_lang)) @@ state, "voikko_lang")

\* pickle.dumps(tokenizer)
GetState ==
    /\ pickled' = getstate(Dict)
    /\ origin' = [restored |-> FALSE, stem_map |-> stem_map,
                  analyzed |-> {w \in PickleWords : <<self, w>> \in DOMAIN acache}]
    /\ last' = [op |-> "getstate"]
    /\ UNCHANGED <<stem_map, voikko, self, acache, topvars>>

\* pickle.loads: a new object, its __dict__ updated from __setstate__'s state; the
\* analyze cache belongs to the decorator (line 109), not to the object, and its
\* keys hold the object that made them.
SetState ==
    /\ pickled # NoState
    /\ self < MaxRestores
    /\ \E d \in {setstate(pickled)} :
         /\ stem_map' = d.stem_map
         /\ voikko' = d.voikko
    /\ self' = self + 1
    /\ origin' = [origin EXCEPT !.restored = TRUE]
    /\ last' = [op |-> "setstate"]
    /\ UNCHANGED <<acache, pickled, topvars>>

InitPickle == (\E l \in Langs : InitTokenizer(l)) /\ NoTopics

NextPickle ==
    \/ \E p \in SeqsUpTo(PickleTokens, 1), u \in BOOLEAN : TokenizeParagraph(p, u)
    \/ \E w \in PickleWords : Analyze(w)
    \/ GetState
    \/ SetState

SpecPickle == InitPickle /\ [][NextPickle]_vars

Next ==
    \/ \E p \in Paragraphs, u \in BOOLEAN : TokenizeParagraph(p, u)
    \/ \E t \in Texts : Tokenize(t)

Spec == Init /\ [][Next]_vars

\* TextTopics.__init__ / init: the vectorizer and the LDA are loaded from the
\* instance path, or fitted on the texts, which sends every text through
\* self._tokenizer.
RECURSIVE fit(_, _)
fit(h, texts) ==
    IF texts = <<>> THEN h ELSE fit(tokenize(h, Head(texts)).h, Tail(texts))

InitTopics ==
    /\ voikko = Voikko("fi")
    /\ self = 0
    /\ pickled = NoState
    /\ origin = NoOrigin
    /\ last = NoCall
    /\ lda \in Models
    /\ shared \in BOOLEAN
    /\ \E h \in {IF shared THEN fit(Heap(<<>>, voikko, self, <<>>), lda.corpus)
                 ELSE Heap(<<>>, voikko, self, <<>>)} :
         /\ stem_map = h.stem_map
         /\ acache = h.acache
    /\ cache = EmptyCache
    /\ compared = NotCompared

FindTopicWord(text, topic_id) ==
    \E o \in find_topic_word(Mem(stem_map, acache, cache), text, topic_id) :
    /\ stem_map' = o.m.stem_map
    /\ acache' = o.m.acache
    /\ cache' = o.m.cache
    /\ last' = [op |-> "find_topic_word", text |-> text, topic_id |-> topic_id,
                outcome |-> [x \in DOMAIN o \ {"m"} |-> o[x]]]
    /\ UNCHANGED <<voikko, self, pickled, origin, lda, shared, compared>>

CompareSeries(source, target) ==
    \E o \in compare_series(Mem(stem_map, acache, cache), source, target) :
    /\ stem_map' = o.m.stem_map
    /\ acache' = o.m.acache
    /\ cache' = o.m.cache
    /\ compared' = [compared EXCEPT ![<<dropna(source), dropna(target)>>] =
                       [x \in (DOMAIN o \ {"m"}) \cup {"called"} |->
                           IF x = "called" THEN TRUE ELSE o[x]]]
    /\ last' = [op |-> "compare_series", source |-> source, target |-> target,
                outcome |-> [x \in DOMAIN o \ {"m"} |-> o[x]]]
    /\ UNCHANGED <<voikko, self, pickled, origin, lda, shared>>

NextTopics ==
    \/ \E c \in Collections, t \in TopicIds : FindTopicWord(c, t)

SpecTopics == InitTopics /\ [][NextTopics]_vars

NextCompare ==
    \/ \E a, b \in SeriesSet : CompareSeries(a, b)

SpecCompare == InitTopics /\ [][NextCompare]_vars

\* ================================================================ claims
IsTok == last.op = "tokenize_paragraph"

Unresolved(word) == voikko_analyze(voikko, word) = <<>>

\* The stopword classes as the specification lists them: interjection, adverb,
\* numeral, pronoun, conjunction, adposition, negation verb.
StopwordClassSet ==
    {"huudahdussana", "seikkasana", "lukusana", "asemosana", "sidesana",
     "suhdesana", "kieltosana"}

\* C1: tokenize_paragraph returns, for a paragraph and a use_suggestions flag,
\* the stems a fresh tokenizer with the same oracle returns for them, whatever
\* calls were made on the instance before.
C1_Determinism ==
    IsTok =>
        last.r = tokenize_paragraph(Heap(<<>>, voikko, 0, <<>>), last.sentence,
                                    last.use_suggestions, 0).r

\* C2: a paragraph whose words are each resolved, or unresolved without a
\* suggestion, yields the empty sequence when more than half of its words
\* (with repetitions) are unresolved and a non-empty one when fewer than half are.
C2_NoiseThreshold ==
    IsTok =>
        LET words == FindAll(last.sentence)
            n == Len(words)
            u == Cardinality({i \in 1..n : Unresolved(words[i])})
            covered == \A i \in 1..n :
                          Unresolved(words[i]) => voikko_suggest(voikko, words[i]) = <<>>
        IN covered => /\ (2 * u > n => last.r = <<>>)
                      /\ (2 * u < n => last.r # <<>>)

\* C3: with use_suggestions, an unknown word whose best suggestion is itself
\* unknown stems to exactly the lowercase suggestion, and no suggestion is
\* requested for the suggestion.
C3_SuggestionFallback ==
    (IsTok /\ last.use_suggestions) =>
        \A i \in DOMAIN last.trace :
            LET t == last.trace[i]
                sg == voikko_suggest(voikko, t.word)
            IN (/\ Unresolved(t.word)
                /\ sg # <<>>
                /\ Len(FindAll(sg[1])) = 1
                /\ Unresolved(FindAll(sg[1])[1]))
               => /\ t.out = FindAll(sg[1])
                  /\ \A k \in DOMAIN t.sg_calls : t.sg_calls[k].word = t.word

\* C4: a word stemmed a second time by the same instance gets the stems of the
\* first time, and the second stemming calls neither voikko.analyze nor
\* voikko.suggest.
C4_Idempotence ==
    IsTok =>
        \A i, j \in DOMAIN last.trace :
            (i < j /\ last.trace[i].word = last.trace[j].word)
            => /\ last.trace[j].out = last.trace[i].out
               /\ last.trace[j].an_calls = <<>>
               /\ last.trace[j].sg_calls = <<>>

\* C9: a word with at least one analysis stems to the lowercase base form of
\* its first analysis outside the stopword classes, or to the lowercase word
\* when every analysis is of a stopword class; the error counter is not
\* incremented for it and the stem is in the stem cache.
C9_StopwordExclusion ==
    IsTok =>
        \A i \in DOMAIN last.trace :
            LET t == last.trace[i]
                a == voikko_analyze(voikko, t.word)
                keep == {k \in 1..Len(a) : a[k].CLASS \notin StopwordClassSet}
                expected == IF keep = {} THEN Lower(t.word)
                            ELSE Lower(a[CHOOSE k \in keep : \A m \in keep : k <= m].BASEFORM)
            IN a # <<>> => /\ t.out = <<expected>>
                           /\ t.err = 0
                           /\ t.word \in DOMAIN stem_map
                           /\ stem_map[t.word] = expected

\* a call that analysed a word whose first analysis is of a stopword class and
\* whose second is not, and stemmed it to the base form of the second
C9_Witness ==
    /\ IsTok
    /\ \E i \in DOMAIN last.trace :
          /\ last.trace[i].word = "voin"
          /\ ~last.trace[i].cached
          /\ last.trace[i].an_calls # <<>>
          /\ last.trace[i].out = <<"voida">>

\* C10: a re-tokenization started from a suggestion never asks for a
\* suggestion and never re-tokenizes again: every call ends with a nesting
\* depth of at most one and with voikko.suggest called at the top level only.
C10_BoundedRecursion ==
    last.op \in {"tokenize_paragraph", "tokenize"} =>
        /\ ~last.overflow
        /\ last.maxdepth <= 1
        /\ \A k \in DOMAIN last.sg_calls : last.sg_calls[k].depth = 0

\* a call on a word whose best suggestion is the word itself, after the
\* nested call on the suggestion returned
C10_Witness ==
    /\ IsTok
    /\ last.sentence = <<"abc">>
    /\ last.use_suggestions
    /\ last.maxdepth = 1
    /\ last.sg_calls = <<[word |-> "abc", depth |-> 0]>>

\* What the export holds and what the restored tokenizer has: no oracle handle
\* but the language tag in the exported state, the handle rebuilt from the tag.
ExportAndHandle ==
    /\ pickled # NoState =>
          /\ "voikko" \notin DOMAIN pickled
          /\ "voikko_lang" \in DOMAIN pickled
    /\ origin.restored => voikko = Voikko(pickled.voikko_lang)

\* Every word stemmed before the export is answered by the restored tokenizer
\* from the stem cache: the same stem, no oracle call.
StemCachePreserved ==
    origin.restored =>
        /\ \A w \in DOMAIN origin.stem_map :
              w \in DOMAIN stem_map /\ stem_map[w] = origin.stem_map[w]
        /\ IsTok =>
              \A i \in DOMAIN last.trace :
                  LET t == last.trace[i] IN
                  t.word \in DOMAIN origin.stem_map
                  => /\ t.out = <<origin.stem_map[t.word]>>
                     /\ t.an_calls = <<>>
                     /\ t.sg_calls = <<>>

\* Every word analyzed before the export is answered by the restored tokenizer
\* without a new voikko.analyze call.
AnalysisCachePreserved ==
    origin.restored =>
        /\ (last.op = "analyze" /\ last.word \in origin.analyzed)
              => last.an_calls = <<>>
        /\ IsTok =>
              \A i \in DOMAIN last.trace :
                  LET t == last.trace[i] IN
                  t.word \in origin.analyzed
                  => \A k \in DOMAIN t.an_calls : t.an_calls[k] # t.word

\* C8 (as stated): the exported state has no oracle handle and has the
\* language tag, the restored tokenizer has a handle rebuilt from the tag, and
\* both the stem cache and the analysis cache answer after the restore without
\* a new oracle call.
C8_RoundTripAllCaches ==
    ExportAndHandle /\ StemCachePreserved /\ AnalysisCachePreserved

\* C8 (amended): the exported state has no oracle handle and has the language
\* tag, the restored tokenizer has a handle rebuilt from the tag, and the stem
\* cache is preserved: a word stemmed before the export is answered after the
\* restore with the same stem and no oracle call.
C8_RoundTripStemCache ==
    ExportAndHandle /\ StemCachePreserved

\* the restored tokenizer stemmed a word of the exported stem cache
C8_Witness ==
    /\ origin.restored
    /\ self = 1
    /\ IsTok
    /\ \E i \in DOMAIN last.trace :
          last.trace[i].word \in DOMAIN origin.stem_map /\ last.trace[i].cached
\* The last call was a find_topic_word that missed its cache and ran.
Computed == last.op = "find_topic_word" /\ ~last.outcome.hit

\* A word with an analysis of class proper noun or common noun.
IsNoun(w) ==
    \E i \in DOMAIN voikko_analyze(voikko, w) :
        voikko_analyze(voikko, w)[i].CLASS \in {"nimi", "nimisana"}

InVocabulary(w) == w \in Range(lda.words)

\* log(localFreq[w]) x globalRelevance[w] for topic t, as a fraction
ScoreOf(freq, t, w) ==
    LET wid == CHOOSE i \in DOMAIN lda.words : lda.words[i] = w IN
    [num |-> LogMilli[freq[w]] * lda.components[t + 1][wid],
     den |-> SumColumn(lda.components, wid, Len(lda.components))]

StrictlyHigher(a, b) == a.num * b.den > b.num * a.den

\* C5: when no stem of the collection is a noun-class word, find_topic_word
\* raises and returns no word; a word without a defined score is never returned.
C5_NoSuitableWordFails ==
    Computed =>
        LET o == last.outcome IN
        /\ (\A w \in DOMAIN o.source : ~IsNoun(w)) => o.raised
        /\ ~o.raised => (o.word \in DOMAIN o.source /\ InVocabulary(o.word))

\* The word find_topic_word returns is a noun-class word, and no noun-class
\* word of the collection has a strictly higher score.
ReturnsBestNoun ==
    (Computed /\ ~last.outcome.raised) =>
        LET o == last.outcome
            w == o.word
            scored(v) == v \in DOMAIN o.source /\ InVocabulary(v)
        IN /\ IsNoun(w)
           /\ \A v \in DOMAIN o.source :
                 (IsNoun(v) /\ scored(v))
                 => /\ scored(w)
                    /\ ~StrictlyHigher(ScoreOf(o.source, last.topic_id, v),
                                       ScoreOf(o.source, last.topic_id, w))

\* C6: the returned word is a noun-class word of the best score
\* among the collection's noun-class words, and a collection with exactly one
\* noun-class word gets that word.
C6_TopicWordSelection ==
    /\ ReturnsBestNoun
    /\ (Computed /\ ~last.outcome.raised) =>
          LET nouns == {v \in DOMAIN last.outcome.source : IsNoun(v)} IN
          Cardinality(nouns) = 1 => last.outcome.word \in nouns

\* C7: when compare_series(A, B) and compare_series(B, A) both return, the
\* first pair of the one is the second pair of the other: same topic id, same
\* word.
C7_ComparatorSymmetry ==
    \A a, b \in Collections :
        LET x == compared[<<a, b>>]
            y == compared[<<b, a>>]
        IN (x.called /\ y.called /\ ~x.raised /\ ~y.raised) => x.max = y.min

\* two different collections compared both ways, several topics sharing the
\* extreme difference
C7_Witness ==
    \E a, b \in Collections :
        LET x == compared[<<a, b>>]
            y == compared[<<b, a>>]
        IN /\ a # b
           /\ x.called /\ y.called /\ ~x.raised /\ ~y.raised
           /\ \E i, j \in DOMAIN x.diffs : i # j /\ x.diffs[i] = x.diffs[j]
                                           /\ x.diffs[i] = Maximum(x.diffs)
           /\ x.max[2] # ""
====
